---- MODULE Spec2Model ----
(***************************************************************************)
(* Model of AuthService (src/src/auth/auth.service.ts): password hashing,  *)
(* token signing / verification / rotation, credential authentication and  *)
(* Authorization-header parsing.                                           *)
(***************************************************************************)
EXTENDS Integers, Sequences, FiniteSets, Bags, TLC

\* users, nextId: the user store and the id it gives next. hashes: how many
\* times bcrypt.hash was called. pending: the calls of the async methods
\* that are suspended at an await, a bag: calls with equal arguments
\* suspended at the same await with the same answer are counted, and each
\* resumes by itself. tokens: the tokens the client holds (see Keep). clock, ticks: the time in seconds and how often it advanced.
\* result: what the step just taken returned or threw to a caller, Idle when
\* it delivered nothing. call: a call of a header function.
VARIABLES users, nextId, hashes, pending, tokens, clock, ticks, result, call

vars == <<users, nextId, hashes, pending, tokens, clock, ticks, result, call>>

(***************************************************************************)
(* Bounds of the model.                                                    *)
(***************************************************************************)
MaxTicks == 4
MaxInflight == 2
MaxHashes == 3
MaxPieces == 5
MaxText == 5
MaxRaw == 4

Emails == {"a@b.com", "c@d.com"}
\* Passwords are sequences of characters, as the hashes are.
Passwords == {<<"p", "w">>, <<"p", "w", "2">>}
Nicknames == {"A"}
\* The salt bcrypt.hash draws is fresh at every call: the n-th call draws
\* the n-th salt.
Salt(n) == n
\* The clock is observed at instants 0, 299, 300, 3599, 3601, 3900, ...:
\* just before, at and after the expiry of tokens signed at earlier instants.
TickSteps == <<299, 1, 3299, 2>>

(***************************************************************************)
(* Values.                                                                 *)
(***************************************************************************)
\* A JavaScript value that may be undefined: <<v>> when present.
Some(v) == <<v>>
Undefined == <<>>

\* obj.field of a JavaScript object: undefined when the object lacks it.
Field(obj, f) == IF f \in DOMAIN obj THEN Some(obj[f]) ELSE Undefined

\* The object JSON keeps of an object literal: keys whose value is undefined
\* are dropped by JSON.stringify.
Json(fields) ==
    [k \in {f \in DOMAIN fields : fields[f] # Undefined} |-> fields[k][1]]

JWT_SECRET == "JWT_SECRET"
OtherSecret == "other-secret"

AccessTtl == 300
RefreshTtl == 3600

\* new UnauthorizedException(message); without a message Nest uses "Unauthorized".
UnauthorizedException(msg) == [type |-> "UnauthorizedException", message |-> msg]
DefaultMessage == "Unauthorized"
MsgWrongPassword == "wrong password"
MsgWrongToken == "wrong token!"
MsgTokenInvalid == "token expired or invalid"
MsgRefreshOnly == "reissue needs a refresh token"

\* The errors jsonwebtoken's verify throws.
JsonWebTokenError == [type |-> "JsonWebTokenError", message |-> "invalid signature"]
TokenExpiredError == [type |-> "TokenExpiredError", message |-> "jwt expired"]
BadRequestException == [type |-> "BadRequestException", message |-> "email exists"]

Ok(v) == [ok |-> TRUE, value |-> v]
Throw(e) == [ok |-> FALSE, error |-> e]

(***************************************************************************)
(* bcrypt: a salted one-way hash.                                          *)
(***************************************************************************)
\* bcrypt.hash(plain, rounds) with the salt it drew: the version tag, the
\* salt, then the digest of salt and plain text.
Digest(salt, plain) == [i \in 1..Len(plain) |-> <<salt, i, plain[i]>>]

bcryptHash(plain, salt) == <<"$2b$", salt>> \o Digest(salt, plain)

\* bcrypt.compare(plain, hash): hashes plain with the salt read from hash.
bcryptCompare(plain, hash) ==
    /\ Len(hash) >= 2
    /\ hash[1] = "$2b$"
    /\ hash = bcryptHash(plain, hash[2])

(***************************************************************************)
(* jsonwebtoken: sign and verify with a shared secret.                     *)
(***************************************************************************)
Signature(payload, secret) == <<secret, payload>>

\* jwtService.sign(payload, {secret, expiresIn}) at time now.
JwtSign(payload, secret, expiresIn, now) ==
    LET claims == Json(payload)
        body == [k \in DOMAIN claims \cup {"iat", "exp"} |->
                   IF k = "iat" THEN now
                   ELSE IF k = "exp" THEN now + expiresIn
                   ELSE claims[k]]
    IN [payload |-> body, sig |-> Signature(body, secret)]

\* jwtService.verify(token, {secret}) at time now.
JwtVerify(token, secret, now) ==
    IF token.sig # Signature(token.payload, secret) THEN Throw(JsonWebTokenError)
    ELSE IF now >= token.payload.exp THEN Throw(TokenExpiredError)
    ELSE Ok(token.payload)

(***************************************************************************)
(* AuthService.                                                            *)
(***************************************************************************)
\* signToken with the two lifetimes exchanged.
signTokenSwappedTtl(user, isRefreshToken, now) ==
    LET payload == [email |-> Field(user, "email"),
                    sub |-> Field(user, "id"),
                    type |-> Some(IF isRefreshToken THEN "refresh" ELSE "access")]
    IN JwtSign(payload, JWT_SECRET, IF isRefreshToken THEN AccessTtl ELSE RefreshTtl, now)

signToken(user, isRefreshToken, now) ==
    LET payload == [email |-> Field(user, "email"),
                    sub |-> Field(user, "id"),
                    type |-> Some(IF isRefreshToken THEN "refresh" ELSE "access")]
    IN JwtSign(payload, JWT_SECRET, IF isRefreshToken THEN RefreshTtl ELSE AccessTtl, now)

loginUser(user, now) ==
    [accessToken |-> signToken(user, FALSE, now),
     refreshToken |-> signToken(user, TRUE, now)]

\* usersService.getUserByEmail(email): the stored users with that email.
getUserByEmail(store, email) == {u \in store : u.email = email}

\* authenticateWithEmailAndPassword when the awaited getUserByEmail has
\* answered found: it throws, or goes on to compare the password with the
\* user found.
authenticateLookup(found) ==
    IF found = {} THEN Throw(UnauthorizedException(DefaultMessage))
    ELSE Ok(CHOOSE u \in found : TRUE)

\* authenticateWithEmailAndPassword ignoring the answer of bcrypt.compare.
authenticateIgnoringCompare(existingUser, passOk) == Ok(existingUser)

\* authenticateWithEmailAndPassword when the awaited bcrypt.compare has
\* answered passOk.
authenticateCompare(existingUser, passOk) ==
    IF ~passOk THEN Throw(UnauthorizedException(MsgWrongPassword))
    ELSE Ok(existingUser)

\* loginWithEmail when the awaited authenticateWithEmailAndPassword has
\* returned or thrown; the tokens are signed at the time it resumes.
loginWithEmail(existingUser, now) ==
    IF existingUser.ok THEN Ok(loginUser(existingUser.value, now)) ELSE existingUser

verifyToken(token, now) ==
    LET r == JwtVerify(token, JWT_SECRET, now)
    IN IF r.ok THEN r ELSE Throw(UnauthorizedException(MsgTokenInvalid))

\* rotateToken without the check of the decoded kind.
rotateTokenAnyKind(token, isRefreshToken, now) ==
    LET r == JwtVerify(token, JWT_SECRET, now)
    IN IF ~r.ok THEN r ELSE Ok(signToken(r.value, isRefreshToken, now))

rotateToken(token, isRefreshToken, now) ==
    LET r == JwtVerify(token, JWT_SECRET, now)
    IN IF ~r.ok THEN r
       ELSE IF r.value.type # "refresh" THEN Throw(UnauthorizedException(MsgRefreshOnly))
       ELSE Ok(signToken(r.value, isRefreshToken, now))

\* usersService.createUser(fields): the store keeps emails unique.
createUser(store, id, fields) ==
    IF getUserByEmail(store, fields.email) # {} THEN Throw(BadRequestException)
    ELSE Ok([id |-> id, email |-> fields.email, nickname |-> fields.nickname,
             password |-> fields.password])

\* registerWithEmail from its call to the await of bcrypt.hash.
registerWithEmailHash(user, salt) == bcryptHash(user.password, salt)

\* registerWithEmail handing the submitted password to the store as it is.
registerWithEmailCreatePlain(store, id, user, hash) ==
    [calls |-> <<user>>, created |-> createUser(store, id, user)]

\* registerWithEmail when the awaited bcrypt.hash has answered hash, up to
\* the answer of createUser. calls: the arguments of each createUser call
\* made; created: what the store answered.
registerWithEmailCreate(store, id, user, hash) ==
    LET arg == [user EXCEPT !.password = hash]
    IN [calls |-> <<arg>>, created |-> createUser(store, id, arg)]

\* registerWithEmail after the awaited createUser: it throws what createUser
\* threw, or signs the tokens of the new user.
registerWithEmailReturn(newUser, now) ==
    IF newUser.ok THEN Ok(loginUser(newUser.value, now)) ELSE newUser

(***************************************************************************)
(* Strings are sequences: header text of one-character strings, base64     *)
(* text and decoded credential text of UTF-16 code units.                  *)
(***************************************************************************)
\* String.prototype.split(sep) for a one-character separator.
RECURSIVE Split(_, _)
Split(s, sep) ==
    IF \A i \in 1..Len(s) : s[i] # sep THEN <<s>>
    ELSE LET i == CHOOSE j \in 1..Len(s) :
                      s[j] = sep /\ \A k \in 1..(j - 1) : s[k] # sep
         IN <<SubSeq(s, 1, i - 1)>> \o Split(SubSeq(s, i + 1, Len(s)), sep)

Bearer == <<"B", "e", "a", "r", "e", "r">>
Basic == <<"B", "a", "s", "i", "c">>

\* extractTokenFromHeader checking the scheme but not the number of parts.
extractTokenAnyLength(header, isBearer) ==
    LET splitToken == Split(header, " ")
        prefix == IF isBearer THEN Bearer ELSE Basic
    IN IF Len(splitToken) < 2 \/ splitToken[1] # prefix
       THEN Throw(UnauthorizedException(MsgWrongToken))
       ELSE Ok(splitToken[2])

extractTokenFromHeader(header, isBearer) ==
    LET splitToken == Split(header, " ")
        prefix == IF isBearer THEN Bearer ELSE Basic
    IN IF Len(splitToken) # 2 \/ splitToken[1] # prefix
       THEN Throw(UnauthorizedException(MsgWrongToken))
       ELSE Ok(splitToken[2])

\* The base64 alphabet as character codes: A-Z, a-z, 0-9, "+", "/".
B64Chars ==
    [i \in 1..64 |-> IF i <= 26 THEN 64 + i
                     ELSE IF i <= 52 THEN 70 + i
                     ELSE IF i <= 62 THEN i - 5
                     ELSE IF i = 63 THEN 43 ELSE 47]

B64Char(v) == B64Chars[v + 1]

\* "=" pads; "-" and "_" are the URL-safe digits.
Pad == 61
Minus == 45
Underscore == 95

\* The characters Buffer.from(_, 'base64') reads as digits: the standard
\* alphabet and the URL-safe "-" and "_".
B64Digits == {B64Chars[i] : i \in 1..64} \cup {Minus, Underscore}

B64Value(c) ==
    IF c = Minus THEN 62
    ELSE IF c = Underscore THEN 63
    ELSE (CHOOSE i \in 1..64 : B64Chars[i] = c) - 1

\* U+FFFD, what stands for bytes or code units that encode no character.
Replacement == 65533

HighSurrogates == 55296..56319
LowSurrogates == 56320..57343

\* The UTF-8 bytes of one code point.
Utf8Bytes(c) ==
    IF c < 128 THEN <<c>>
    ELSE IF c < 2048 THEN <<192 + c \div 64, 128 + (c % 64)>>
    ELSE IF c < 65536 THEN
        <<224 + c \div 4096, 128 + ((c \div 64) % 64), 128 + (c % 64)>>
    ELSE <<240 + c \div 262144, 128 + ((c \div 4096) % 64),
           128 + ((c \div 64) % 64), 128 + (c % 64)>>

\* Buffer.from(text, 'utf8'): the UTF-8 bytes of a text of UTF-16 code
\* units. A surrogate pair is one code point, a lone surrogate U+FFFD.
RECURSIVE Utf8Encode(_)
Utf8Encode(text) ==
    IF text = <<>> THEN <<>>
    ELSE LET c == Head(text)
         IN IF c \in HighSurrogates /\ Len(text) >= 2 /\ text[2] \in LowSurrogates
            THEN Utf8Bytes(65536 + (c - 55296) * 1024 + (text[2] - 56320))
                     \o Utf8Encode(Tail(Tail(text)))
            ELSE IF c \in HighSurrogates \cup LowSurrogates
            THEN Utf8Bytes(Replacement) \o Utf8Encode(Tail(text))
            ELSE Utf8Bytes(c) \o Utf8Encode(Tail(text))

\* Buffer.from(bytes).toString('base64'): what a client sends.
RECURSIVE Base64Encode(_)
Base64Encode(bytes) ==
    IF Len(bytes) = 0 THEN <<>>
    ELSE IF Len(bytes) = 1 THEN
        <<B64Char(bytes[1] \div 4), B64Char((bytes[1] % 4) * 16), Pad, Pad>>
    ELSE IF Len(bytes) = 2 THEN
        <<B64Char(bytes[1] \div 4),
          B64Char((bytes[1] % 4) * 16 + bytes[2] \div 16),
          B64Char((bytes[2] % 16) * 4), Pad>>
    ELSE
        <<B64Char(bytes[1] \div 4),
          B64Char((bytes[1] % 4) * 16 + bytes[2] \div 16),
          B64Char((bytes[2] % 16) * 4 + bytes[3] \div 64),
          B64Char(bytes[3] % 64)>> \o Base64Encode(SubSeq(bytes, 4, Len(bytes)))

\* The bytes of a sequence of digit values: a trailing group of two or
\* three digits gives one or two bytes.
RECURSIVE Base64Bytes(_)
Base64Bytes(v) ==
    IF Len(v) < 2 THEN <<>>
    ELSE IF Len(v) = 2 THEN <<v[1] * 4 + v[2] \div 16>>
    ELSE IF Len(v) = 3 THEN
        <<v[1] * 4 + v[2] \div 16, (v[2] % 16) * 16 + v[3] \div 4>>
    ELSE
        <<v[1] * 4 + v[2] \div 16,
          (v[2] % 16) * 16 + v[3] \div 4,
          (v[3] % 4) * 64 + v[4]>> \o Base64Bytes(SubSeq(v, 5, Len(v)))

\* Buffer.from(text, 'base64'): of each UTF-16 code unit only the low byte
\* is read; decoding stops at the first "=", and characters that are no
\* digit are skipped.
Base64Decode(text) ==
    LET low == [i \in 1..Len(text) |-> text[i] % 256]
        data == SelectSeq(Split(low, Pad)[1], LAMBDA c : c \in B64Digits)
    IN Base64Bytes([i \in 1..Len(data) |-> B64Value(data[i])])

\* The UTF-16 code units of one code point.
Utf16Units(cp) ==
    IF cp < 65536 THEN <<cp>>
    ELSE <<55296 + (cp - 65536) \div 1024, 56320 + ((cp - 65536) % 1024)>>

\* The UTF-8 decoder from byte i on: cp and need are the code point being
\* assembled and the continuation bytes it still needs, lower..upper the
\* range allowed for the next one. A byte that cannot continue or start a
\* sequence gives U+FFFD; a byte that breaks a sequence is read again.
RECURSIVE Utf8Run(_, _, _, _, _, _)
Utf8Run(bytes, i, cp, need, lower, upper) ==
    IF i > Len(bytes) THEN (IF need > 0 THEN <<Replacement>> ELSE <<>>)
    ELSE LET b == bytes[i]
         IN IF need = 0 THEN
                IF b < 128 THEN <<b>> \o Utf8Run(bytes, i + 1, 0, 0, 128, 191)
                ELSE IF b \in 194..223 THEN Utf8Run(bytes, i + 1, b - 192, 1, 128, 191)
                ELSE IF b \in 224..239 THEN
                    Utf8Run(bytes, i + 1, b - 224, 2,
                            IF b = 224 THEN 160 ELSE 128, IF b = 237 THEN 159 ELSE 191)
                ELSE IF b \in 240..244 THEN
                    Utf8Run(bytes, i + 1, b - 240, 3,
                            IF b = 240 THEN 144 ELSE 128, IF b = 244 THEN 143 ELSE 191)
                ELSE <<Replacement>> \o Utf8Run(bytes, i + 1, 0, 0, 128, 191)
            ELSE IF b < lower \/ b > upper THEN
                <<Replacement>> \o Utf8Run(bytes, i, 0, 0, 128, 191)
            ELSE IF need = 1 THEN
                Utf16Units(cp * 64 + (b - 128)) \o Utf8Run(bytes, i + 1, 0, 0, 128, 191)
            ELSE Utf8Run(bytes, i + 1, cp * 64 + (b - 128), need - 1, 128, 191)

\* buffer.toString('utf8'): the text as UTF-16 code units.
toStringUtf8(bytes) == Utf8Run(bytes, 1, 0, 0, 128, 191)

Colon == 58

decodeBasicToken(base64String) ==
    LET decode == toStringUtf8(Base64Decode(base64String))
        split == Split(decode, Colon)
    IN IF Len(split) # 2 THEN Throw(UnauthorizedException(MsgWrongToken))
       ELSE Ok([email |-> split[1], password |-> split[2]])


(***************************************************************************)
(* The state machine: a user store, the tokens handed out so far, a clock  *)
(* in seconds and the outcome of the last request.                         *)
(***************************************************************************)
Idle == [op |-> "none"]

RegisterDtos == [email : Emails, nickname : Nicknames, password : Passwords]
\* The logins tried: a@b.com with each password, before and after a@b.com
\* or c@d.com registered.
Credentials == [email : {"a@b.com"}, password : Passwords]

\* A token re-signed with another secret; a token whose kind was edited
\* while keeping the old signature.
Forge(t) == [payload |-> t.payload, sig |-> Signature(t.payload, OtherSecret)]
Tamper(t) == [payload |-> [t.payload EXCEPT !.type = "refresh"], sig |-> t.sig]

Presented == tokens \cup {Forge(t) : t \in tokens} \cup {Tamper(t) : t \in tokens}

\* The client holds one session: a token it is handed replaces the token of
\* the same kind it held.
Keep(held, new) ==
    {t \in held : \A n \in new : t.payload.type # n.payload.type} \cup new

PairTokens(out) == IF out.ok THEN {out.value.accessToken, out.value.refreshToken} ELSE {}

\* The store after a@b.com and c@d.com have registered.
SeedUsers ==
    LET ua == [email |-> "a@b.com", nickname |-> "A", password |-> <<"p", "w">>]
        uc == [email |-> "c@d.com", nickname |-> "A", password |-> <<"p", "w", "2">>]
        a == registerWithEmailCreate({}, 1, ua, registerWithEmailHash(ua, Salt(1)))
        c == registerWithEmailCreate({a.created.value}, 2, uc,
                                     registerWithEmailHash(uc, Salt(2)))
    IN {a.created.value, c.created.value}

Init ==
    /\ users = {}
    /\ nextId = 1
    /\ hashes = 0
    /\ pending = EmptyBag
    /\ tokens = {}
    /\ clock = 0
    /\ ticks = 0
    /\ result = Idle
    /\ call = Idle

\* A call is suspended; a suspended call p resumes and is suspended again
\* as q; a suspended call p resumes and settles.
Suspend(bag, q) == bag (+) SetToBag({q})
Resume(bag, p) == bag (-) SetToBag({p})
Suspended == BagToSet(pending)

\* registerWithEmail is called: bcrypt.hash draws a salt and the call is
\* suspended until the hash is answered.
RegisterHash(dto) ==
    /\ BagCardinality(pending) < MaxInflight
    /\ hashes < MaxHashes
    /\ hashes' = hashes + 1
    /\ pending' = Suspend(pending,
                     [op |-> "register", await |-> "hash", args |-> dto,
                      hash |-> registerWithEmailHash(dto, Salt(hashes + 1))])
    /\ result' = Idle
    /\ UNCHANGED <<users, nextId, tokens, clock, ticks, call>>

\* registerWithEmail resumes with the hash and calls createUser: the store
\* creates the user or refuses, and the call is suspended until it answers.
RegisterCreate(p) ==
    /\ p.op = "register"
    /\ p.await = "hash"
    /\ LET r == registerWithEmailCreate(users, nextId, p.args, p.hash)
       IN /\ users' = IF r.created.ok THEN users \cup {r.created.value} ELSE users
          /\ nextId' = IF r.created.ok THEN nextId + 1 ELSE nextId
          /\ pending' = Suspend(Resume(pending, p),
                           [op |-> "register", await |-> "create", args |-> p.args,
                            calls |-> r.calls, created |-> r.created])
    /\ result' = Idle
    /\ UNCHANGED <<hashes, tokens, clock, ticks, call>>

\* registerWithEmail resumes after createUser and returns or throws.
RegisterReturn(p) ==
    /\ p.op = "register"
    /\ p.await = "create"
    /\ LET out == registerWithEmailReturn(p.created, clock)
       IN result' = [op |-> "register", args |-> p.args, at |-> clock,
                     calls |-> p.calls, created |-> p.created, out |-> out,
                     issued |-> PairTokens(out)]
    /\ pending' = Resume(pending, p)
    /\ UNCHANGED <<users, nextId, hashes, tokens, clock, ticks, call>>

\* loginWithEmail is called: it calls authenticateWithEmailAndPassword,
\* which asks the store for the user and is suspended until it answers.
LoginLookup(cred) ==
    /\ BagCardinality(pending) < MaxInflight
    /\ pending' = Suspend(pending,
                     [op |-> "login", await |-> "lookup", args |-> cred,
                      found |-> getUserByEmail(users, cred.email)])
    /\ result' = Idle
    /\ UNCHANGED <<users, nextId, hashes, tokens, clock, ticks, call>>

\* loginWithEmail suspended at its await of authenticateWithEmailAndPassword,
\* which has returned or thrown auth.
Authenticated(p, auth) ==
    [op |-> "login", await |-> "authenticate", args |-> p.args,
     found |-> p.found, auth |-> auth]

\* The lookup answered that no user has the email:
\* authenticateWithEmailAndPassword throws.
LoginAbsent(p) ==
    /\ p.op = "login"
    /\ p.await = "lookup"
    /\ LET auth == authenticateLookup(p.found)
       IN /\ ~auth.ok
          /\ pending' = Suspend(Resume(pending, p), Authenticated(p, auth))
    /\ result' = Idle
    /\ UNCHANGED <<users, nextId, hashes, tokens, clock, ticks, call>>

\* The lookup answered a user: bcrypt.compare is called with the password
\* and the stored hash, and authenticateWithEmailAndPassword is suspended
\* until it answers.
LoginCompare(p) ==
    /\ p.op = "login"
    /\ p.await = "lookup"
    /\ LET auth == authenticateLookup(p.found)
       IN /\ auth.ok
          /\ pending' = Suspend(Resume(pending, p),
                           [op |-> "login", await |-> "compare", args |-> p.args,
                            found |-> p.found, existingUser |-> auth.value,
                            passOk |-> bcryptCompare(p.args.password,
                                                     auth.value.password)])
    /\ result' = Idle
    /\ UNCHANGED <<users, nextId, hashes, tokens, clock, ticks, call>>

\* The comparison answered: authenticateWithEmailAndPassword throws or
\* returns the user.
LoginCompared(p) ==
    /\ p.op = "login"
    /\ p.await = "compare"
    /\ pending' = Suspend(Resume(pending, p),
                     Authenticated(p, authenticateCompare(p.existingUser, p.passOk)))
    /\ result' = Idle
    /\ UNCHANGED <<users, nextId, hashes, tokens, clock, ticks, call>>

\* loginWithEmail resumes after authenticateWithEmailAndPassword: it throws
\* what that threw, or signs the tokens. auth is what
\* authenticateWithEmailAndPassword returned or threw.
LoginReturn(p) ==
    /\ p.op = "login"
    /\ p.await = "authenticate"
    /\ LET out == loginWithEmail(p.auth, clock)
       IN result' = [op |-> "login", args |-> p.args, found |-> p.found,
                     at |-> clock, auth |-> p.auth, out |-> out,
                     issued |-> PairTokens(out)]
    /\ pending' = Resume(pending, p)
    /\ UNCHANGED <<users, nextId, hashes, clock, ticks, call>>

\* A request to an access-protected operation carrying token t as bearer.
AccessProtected(t) ==
    /\ result' = [op |-> "access", args |-> t, at |-> clock, out |-> verifyToken(t, clock)]
    /\ UNCHANGED <<users, nextId, hashes, pending, tokens, clock, ticks, call>>

Rotate(t, isRefreshToken) ==
    LET out == rotateToken(t, isRefreshToken, clock)
        new == IF out.ok THEN {out.value} ELSE {}
    IN /\ tokens' = Keep(tokens, new)
       /\ result' = [op |-> "rotate", args |-> t, want |-> isRefreshToken,
                     at |-> clock, out |-> out, issued |-> new]
       /\ UNCHANGED <<users, nextId, hashes, pending, clock, ticks, call>>

Tick ==
    /\ ticks < MaxTicks
    /\ clock' = clock + TickSteps[(ticks % Len(TickSteps)) + 1]
    /\ ticks' = ticks + 1
    /\ result' = Idle
    /\ UNCHANGED <<users, nextId, hashes, pending, tokens, call>>

\* The credentials a@b.com of SeedUsers registered with.
SeedCredentials == {[email |-> "a@b.com", password |-> <<"p", "w">>]}

\* Token life cycle over a store that already holds two users, one of whom
\* logs in with their credentials; the client keeps the tokens a login or a
\* rotation returns.
InitTokens ==
    /\ users = SeedUsers
    /\ nextId = 3
    /\ hashes = 2
    /\ pending = EmptyBag
    /\ tokens = {}
    /\ clock = 0
    /\ ticks = 0
    /\ result = Idle
    /\ call = Idle

Next ==
    \/ \E cred \in SeedCredentials : LoginLookup(cred)
    \/ \E p \in Suspended : LoginCompare(p)
    \/ \E p \in Suspended : LoginCompared(p)
    \/ \E p \in Suspended : LoginReturn(p) /\ tokens' = Keep(tokens, result'.issued)
    \/ \E t \in Presented : AccessProtected(t)
    \/ \E t \in Presented, b \in BOOLEAN : Rotate(t, b)
    \/ Tick

Spec == InitTokens /\ [][Next]_vars

\* Registration and login from an empty store, the calls interleaved at
\* their awaits; the client holds on to no token.
NextAccounts ==
    \/ \E dto \in RegisterDtos : RegisterHash(dto)
    \/ \E p \in Suspended : RegisterCreate(p)
    \/ \E p \in Suspended : RegisterReturn(p)
    \/ \E cred \in Credentials : LoginLookup(cred)
    \/ \E p \in Suspended : LoginAbsent(p)
    \/ \E p \in Suspended : LoginCompare(p)
    \/ \E p \in Suspended : LoginCompared(p)
    \/ \E p \in Suspended : LoginReturn(p) /\ UNCHANGED tokens

SpecAccounts == Init /\ [][NextAccounts]_vars

(***************************************************************************)
(* The header functions, applied to bounded inputs.                        *)
(***************************************************************************)
RECURSIVE Concat(_)
Concat(pieces) ==
    IF pieces = <<>> THEN <<>> ELSE Head(pieces) \o Concat(Tail(pieces))

HeaderPieces == {Bearer, Basic, <<" ">>, <<"x">>, <<"y", "z">>}

Headers ==
    {Concat(ps) : ps \in UNION {[1..n -> HeaderPieces] : n \in 0..MaxPieces}}

\* Codes of "a", "p", "e" with acute accent (two bytes in UTF-8) and ":".
TextCodes == {97, 112, 233, Colon}

\* Characters of base64 text sent as it is: the digits "Y", "T", "o", the
\* URL-safe digits, a space (skipped), "=", and U+0159 and U+013D, whose low
\* bytes are "Y" and "=".
RawChars == {89, 84, 111, Minus, Underscore, 32, Pad, 345, 317}

RawTexts == UNION {[1..n -> RawChars] : n \in 0..MaxRaw}

Texts == UNION {[1..n -> TextCodes] : n \in 0..MaxText}

HeaderCalls ==
    {[fn |-> "extractTokenFromHeader", header |-> h, isBearer |-> b, done |-> FALSE]
        : h \in Headers, b \in BOOLEAN}

\* plain: the text the client encoded, when it sent the standard encoding.
BasicCalls ==
    {[fn |-> "decodeBasicToken", plain |-> Some(p),
      base64String |-> Base64Encode(Utf8Encode(p)), done |-> FALSE] : p \in Texts}
    \cup {[fn |-> "decodeBasicToken", plain |-> Undefined,
            base64String |-> r, done |-> FALSE] : r \in RawTexts}

InitHeader ==
    /\ users = {}
    /\ nextId = 1
    /\ hashes = 0
    /\ pending = EmptyBag
    /\ tokens = {}
    /\ clock = 0
    /\ ticks = 0
    /\ result = Idle
    /\ call \in HeaderCalls \cup BasicCalls

ExtractToken ==
    /\ call.fn = "extractTokenFromHeader"
    /\ ~call.done
    /\ call' = [fn |-> call.fn, header |-> call.header, isBearer |-> call.isBearer,
                done |-> TRUE, out |-> extractTokenFromHeader(call.header, call.isBearer)]
    /\ UNCHANGED <<users, nextId, hashes, pending, tokens, clock, ticks, result>>

DecodeBasic ==
    /\ call.fn = "decodeBasicToken"
    /\ ~call.done
    /\ call' = [fn |-> call.fn, plain |-> call.plain, base64String |-> call.base64String,
                done |-> TRUE, out |-> decodeBasicToken(call.base64String)]
    /\ UNCHANGED <<users, nextId, hashes, pending, tokens, clock, ticks, result>>

NextHeader ==
    \/ ExtractToken
    \/ DecodeBasic

SpecHeader == InitHeader /\ [][NextHeader]_vars

(***************************************************************************)
(* Properties.                                                             *)
(***************************************************************************)
ValidlySigned(t) == t.sig = Signature(t.payload, JWT_SECRET)
Verifies(t, now) == ValidlySigned(t) /\ now < t.payload.exp
Ttl(kind) == IF kind = "refresh" THEN RefreshTtl ELSE AccessTtl
KindWanted(isRefreshToken) == IF isRefreshToken THEN "refresh" ELSE "access"

\* C1: rotateToken on a validly signed, unexpired token of kind access fails
\* with the wrong-kind UnauthorizedException whatever kind is wanted and
\* issues nothing; a rotation that succeeds was given a refresh token.
C1_AccessTokenNeverRotates ==
    result.op = "rotate" =>
        /\ (Verifies(result.args, result.at) /\ result.args.payload.type = "access") =>
              /\ result.out = Throw(UnauthorizedException(MsgRefreshOnly))
              /\ result.issued = {}
        /\ result.out.ok => result.args.payload.type = "refresh"

C1_Witness ==
    /\ result.op = "rotate"
    /\ Verifies(result.args, result.at)
    /\ result.args.payload.type = "access"
    /\ result.want

\* C2: rotateToken on a valid refresh token returns a token that verifies,
\* has the kind wanted, and carries the subject and the email of the token
\* it was given.
C2_RotationKeepsIdentity ==
    (/\ result.op = "rotate"
     /\ Verifies(result.args, result.at)
     /\ result.args.payload.type = "refresh") =>
        /\ result.out.ok
        /\ Verifies(result.out.value, result.at)
        /\ result.out.value.payload.type = KindWanted(result.want)
        /\ Field(result.out.value.payload, "email") = Field(result.args.payload, "email")
        /\ Field(result.out.value.payload, "sub") = Field(result.args.payload, "sub")

\* C3: no request to an access-protected operation is authenticated by a
\* token of kind refresh.
C3_RefreshTokenNeverAuthenticates ==
    (result.op = "access" /\ result.out.ok) => result.args.payload.type = "access"

\* C4: authenticateWithEmailAndPassword returns a user exactly when the
\* lookup found a user with the email whose hash the password matches, that
\* user being in the store, and fails with UnauthorizedException otherwise;
\* loginWithEmail issues tokens, for that user, only in the first case.
CredentialsMatch(store, cred) ==
    \E u \in store : u.email = cred.email /\ bcryptCompare(cred.password, u.password)

C4_AuthenticationFailsClosed ==
    result.op = "login" =>
        /\ result.auth.ok <=> CredentialsMatch(result.found, result.args)
        /\ result.auth.ok =>
              /\ result.auth.value \in users
              /\ result.auth.value.email = result.args.email
              /\ bcryptCompare(result.args.password, result.auth.value.password)
        /\ ~result.auth.ok => result.auth.error.type = "UnauthorizedException"
        /\ result.out.ok <=> result.auth.ok
        /\ result.out.ok =>
              \A t \in result.issued :
                  Field(t.payload, "sub") = Some(result.auth.value.id)
        /\ ~result.out.ok =>
              /\ result.out.error = result.auth.error
              /\ result.issued = {}

C4_Witness ==
    /\ result.op = "login"
    /\ result.found # {}
    /\ ~result.out.ok

\* C5: two failed authentications with the same credentials, one while the
\* email is absent and one while it is present with another password, give
\* the caller the same error, type and message.
\* AbsentRun: the login with credentials cred run on a store that holds no
\* user with the email.
AbsentRun(cred, store, now) ==
    loginWithEmail(authenticateLookup(
        getUserByEmail({u \in store : u.email # cred.email}, cred.email)), now)

C5_FailureDoesNotRevealEmail ==
    (result.op = "login" /\ ~result.out.ok /\ result.found # {}) =>
        result.out.error = AbsentRun(result.args, users, result.at).error

\* C6: rotateToken on a token that fails verification (wrong signature or
\* expired) fails with an UnauthorizedException and issues nothing.
C6_RotationOfBadTokenUnauthorized ==
    (result.op = "rotate" /\ ~Verifies(result.args, result.at)) =>
        /\ ~result.out.ok
        /\ result.issued = {}
        /\ result.out.error.type = "UnauthorizedException"

\* C7: registerWithEmail calls createUser once, with the hash of the password
\* in place of the password and the other fields as submitted; when the user
\* is created it returns an access and a refresh token for the created id
\* and the registered email, and when createUser fails it returns no token.
TokenIsFor(t, kind, id, email, now) ==
    /\ Verifies(t, now)
    /\ t.payload.type = kind
    /\ Field(t.payload, "sub") = Some(id)
    /\ Field(t.payload, "email") = Some(email)

C7_RegistrationStoresHash ==
    result.op = "register" =>
        /\ Len(result.calls) = 1
        /\ DOMAIN result.calls[1] = DOMAIN result.args
        /\ result.calls[1].email = result.args.email
        /\ result.calls[1].nickname = result.args.nickname
        /\ result.calls[1].password # result.args.password
        /\ bcryptCompare(result.args.password, result.calls[1].password)
        /\ result.created.ok =>
              /\ result.out.ok
              /\ result.created.value.password = result.calls[1].password
              /\ TokenIsFor(result.out.value.accessToken, "access",
                            result.created.value.id, result.args.email, result.at)
              /\ TokenIsFor(result.out.value.refreshToken, "refresh",
                            result.created.value.id, result.args.email, result.at)
        /\ ~result.created.ok => (~result.out.ok /\ result.issued = {})

C7_Witness ==
    /\ result.op = "register"
    /\ result.out.ok
    /\ result.created.value.id = 2

\* C8: a token expires 300 seconds (access) or 3600 seconds (refresh) after
\* it was signed: a validly signed token verifies before that instant and
\* fails verification after it, and a rotated token's lifetime starts at the
\* rotation.
C8_TokenExpiry ==
    /\ \A t \in tokens : t.payload.exp = t.payload.iat + Ttl(t.payload.type)
    /\ (result.op = "access" /\ ValidlySigned(result.args)) =>
          LET expiry == result.args.payload.iat + Ttl(result.args.payload.type)
          IN /\ result.at < expiry => result.out.ok
             /\ result.at > expiry => ~result.out.ok
    /\ (result.op = "rotate" /\ ValidlySigned(result.args)) =>
          LET expiry == result.args.payload.iat + Ttl(result.args.payload.type)
          IN /\ result.at > expiry => ~result.out.ok
             /\ result.out.ok =>
                   /\ result.out.value.payload.iat = result.at
                   /\ result.out.value.payload.exp =
                          result.at + Ttl(KindWanted(result.want))

C8_Witness ==
    /\ result.op = "access"
    /\ ValidlySigned(result.args)
    /\ result.args.payload.type = "refresh"
    /\ result.at > result.args.payload.iat + RefreshTtl
    /\ ~result.out.ok

\* C9: decodeBasicToken splits the decoded text at the first ":" only: the
\* encoding of email ":" password, the email holding no ":", decodes to that
\* email and that password, and a text with no ":" fails with the
\* malformed-header UnauthorizedException.
HasColon(text) == \E i \in 1..Len(text) : text[i] = Colon
FirstColon(text) == CHOOSE i \in 1..Len(text) : text[i] = Colon /\ ~HasColon(SubSeq(text, 1, i - 1))

C9_BasicSplitsAtFirstColon ==
    (call.fn = "decodeBasicToken" /\ call.done /\ call.plain # Undefined) =>
        LET plain == call.plain[1]
        IN IF HasColon(plain)
           THEN call.out = Ok([email |-> SubSeq(plain, 1, FirstColon(plain) - 1),
                               password |-> SubSeq(plain, FirstColon(plain) + 1,
                                                   Len(plain))])
           ELSE call.out = Throw(UnauthorizedException(MsgWrongToken))

\* C10: extractTokenFromHeader returns the text after the space exactly when
\* the header is the expected scheme, one space, and a text with no space;
\* every other header fails with the malformed-header UnauthorizedException.
Scheme(isBearer) == IF isBearer THEN Bearer ELSE Basic

WellFormedHeader(header, isBearer) ==
    LET n == Len(Scheme(isBearer))
    IN /\ Len(header) >= n + 1
       /\ SubSeq(header, 1, n) = Scheme(isBearer)
       /\ header[n + 1] = " "
       /\ \A i \in (n + 2)..Len(header) : header[i] # " "

C10_ExtractNeedsSchemeAndOneToken ==
    (call.fn = "extractTokenFromHeader" /\ call.done) =>
        IF WellFormedHeader(call.header, call.isBearer)
        THEN call.out = Ok(SubSeq(call.header, Len(Scheme(call.isBearer)) + 2,
                                  Len(call.header)))
        ELSE call.out = Throw(UnauthorizedException(MsgWrongToken))

C10_Witness ==
    /\ call.fn = "extractTokenFromHeader"
    /\ call.done
    /\ call.isBearer
    /\ call.out.ok
    /\ Len(call.out.value) > 0

====
